---- MODULE Spec2Model ----
(***************************************************************************)
(* A model of the go-logs logger (src/logger.go): the level filter, the    *)
(* record assembly of logger.Fprint, the template renderer, the ansi       *)
(* stripper and the multi-stream logger.Write, run by concurrent           *)
(* goroutines that share one logger.                                       *)
(*                                                                         *)
(* Strings and byte slices are sequences of one-character strings.  ESC    *)
(* stands for the byte 0x1b and NL for the newline byte.                   *)
(***************************************************************************)
EXTENDS Integers, Sequences, FiniteSets, TLC

ESC == "E"
NL == "N"

Digits == {"0", "1", "2", "3", "4", "5", "6", "7", "8", "9"}

DigitOf(d) == CASE d = 0 -> "0" [] d = 1 -> "1" [] d = 2 -> "2" [] d = 3 -> "3"
                [] d = 4 -> "4" [] d = 5 -> "5" [] d = 6 -> "6" [] d = 7 -> "7"
                [] d = 8 -> "8" [] OTHER -> "9"

\* strings.Repeat(c, k)
Repeat(c, k) == [i \in 1..k |-> c]

\* s[i:] of Go, with i a 1-based position
From(s, i) == SubSeq(s, i, Len(s))

RECURSIVE Concat(_)
Concat(ss) == IF ss = <<>> THEN <<>> ELSE Head(ss) \o Concat(Tail(ss))

IsPrefix(a, b) == Len(a) <= Len(b) /\ SubSeq(b, 1, Len(a)) = a

(***************************************************************************)
(* The ansi stripper: regexp "\x1b\[[\d;]+m", every match replaced by "".  *)
(***************************************************************************)
AnsiClass == Digits \cup {";"}

\* The end of the maximal run of [\d;] that starts at position i (i-1 when
\* there is none).
RECURSIVE RunEnd(_, _)
RunEnd(s, i) == IF i <= Len(s) /\ s[i] \in AnsiClass THEN RunEnd(s, i + 1) ELSE i - 1

\* The position of the last byte of the match of the regexp that starts at
\* position i, 0 when no match starts there.
MatchEnd(s, i) ==
    IF i + 3 <= Len(s) /\ s[i] = ESC /\ s[i + 1] = "["
    THEN LET e == RunEnd(s, i + 2)
         IN IF e >= i + 2 /\ e + 1 <= Len(s) /\ s[e + 1] = "m" THEN e + 1 ELSE 0
    ELSE 0

\* ReplaceAll: leftmost matches, scanned once from left to right, the scan
\* resuming after each match.
RECURSIVE ReplaceAllFrom(_, _)
ReplaceAllFrom(s, i) ==
    IF i > Len(s) THEN <<>>
    ELSE LET e == MatchEnd(s, i)
         IN IF e > 0 THEN ReplaceAllFrom(s, e + 1)
            ELSE <<s[i]>> \o ReplaceAllFrom(s, i + 1)

\* Only the first match is replaced.
RECURSIVE ReplaceFirstFrom(_, _)
ReplaceFirstFrom(s, i) ==
    IF i > Len(s) THEN <<>>
    ELSE LET e == MatchEnd(s, i)
         IN IF e > 0 THEN From(s, e + 1)
            ELSE <<s[i]>> \o ReplaceFirstFrom(s, i + 1)

stripAnsiFirst(text) == ReplaceFirstFrom(text, 1)

stripAnsi(text) == ReplaceAllFrom(text, 1)

stripAnsiByte(text) == ReplaceAllFrom(text, 1)

\* Whether s holds a substring matching ESC '[' {digit | ';'}+ 'm'.
HasAnsi(s) == \E i \in 1..Len(s) : MatchEnd(s, i) > 0

(***************************************************************************)
(* Levels and labels (src/logger.go:26-85).                                *)
(***************************************************************************)
LEVEL_DEBUG == 0
LEVEL_INFO == 1
LEVEL_WARNING == 2
LEVEL_ERROR == 3
LEVEL_CRITICAL == 4
LEVEL_ALL == 5

Levels == LEVEL_DEBUG..LEVEL_ALL

\* rgbterm.String(s, r, g, b): s between the 256-colour escape of the colour
\* and the reset "\x1b[0;00m"; code is the colour's index, as digits.
RgbtermString(s, code) ==
    <<ESC, "[", "3", "8", ";", "5", ";">> \o code \o <<"m">> \o s
        \o <<ESC, "[", "0", ";", "0", "0", "m">>

\* The labels "[DEBUG]" .. "[CRITICAL]" are written "[D]" .. "[C]".
labels ==
    << RgbtermString(<<"[", "D", "]">>, <<"2", "3", "1">>),
       RgbtermString(<<"[", "I", "]">>, <<"4", "1">>),
       RgbtermString(<<"[", "W", "]">>, <<"2", "2", "8">>),
       RgbtermString(<<"[", "E", "]">>, <<"2", "0", "0">>),
       RgbtermString(<<"[", "C", "]">>, <<"1", "9", "6">>),
       <<>> >>

Label(l) == labels[l + 1]

defaultDate == <<"D", "1">>

defaultPrefixColor == RgbtermString(<<":", ":">>, <<"4", "8">>)

(***************************************************************************)
(* Flags (src/logger.go:93-125): the bit mask is the set of the flags set. *)
(***************************************************************************)
Ldate == "Ldate"
LlongFileName == "LlongFileName"
LshortFileName == "LshortFileName"
LfunctionName == "LfunctionName"
LlineNumber == "LlineNumber"
Lcolor == "Lcolor"
LnoFileAnsi == "LnoFileAnsi"
LnoPrefix == "LnoPrefix"
Lid == "Lid"

AllFlags == {Ldate, LlongFileName, LshortFileName, LfunctionName, LlineNumber,
             Lcolor, LnoFileAnsi, LnoPrefix, Lid}

LstdFlags == {Ldate, Lcolor, LnoFileAnsi}

\* flags & mask != 0
FlagSet(flags, mask) == flags \cap mask # {}

(***************************************************************************)
(* Templates.  A template source is a sequence of tokens: literal text,    *)
(* "{{", "}}", and inside an action a field reference .Name, "if .Name"    *)
(* or "end".                                                               *)
(***************************************************************************)
Lit(s) == [k |-> "lit", v |-> s]
Open == [k |-> "open", v |-> <<>>]
Close == [k |-> "close", v |-> <<>>]
Fld(name) == [k |-> "field", v |-> <<name>>]
IfFld(name) == [k |-> "if", v |-> <<name>>]
End == [k |-> "end", v |-> <<>>]

\* {{if .Name}}{{.Name}}sep{{end}}
Opt(name, sep) ==
    <<Open, IfFld(name), Close, Open, Fld(name), Close>>
        \o (IF sep = <<>> THEN <<>> ELSE <<Lit(sep)>>) \o <<Open, End, Close>>

\* template.Parse: the nodes of the source, or an error (an action that is
\* not closed, a "}}" or "end" without its opening, an "if" without "end").
RECURSIVE ParseFrom(_, _, _, _)
ParseFrom(src, i, depth, acc) ==
    IF i > Len(src)
    THEN IF depth = 0 THEN [err |-> FALSE, tree |-> acc]
         ELSE [err |-> TRUE, tree |-> <<>>]
    ELSE IF src[i].k = "lit"
    THEN ParseFrom(src, i + 1, depth, Append(acc, src[i]))
    ELSE IF src[i].k = "open" /\ i + 2 <= Len(src) /\ src[i + 2].k = "close"
                /\ src[i + 1].k \in {"field", "if"}
    THEN ParseFrom(src, i + 3, IF src[i + 1].k = "if" THEN depth + 1 ELSE depth,
                   Append(acc, src[i + 1]))
    ELSE IF src[i].k = "open" /\ i + 2 <= Len(src) /\ src[i + 2].k = "close"
                /\ src[i + 1].k = "end" /\ depth > 0
    THEN ParseFrom(src, i + 3, depth - 1, Append(acc, src[i + 1]))
    ELSE [err |-> TRUE, tree |-> <<>>]

Parse(src) == ParseFrom(src, 1, 0, <<>>)

\* The fields of the format record (src/logger.go:473-482).
FormatFields == {"Prefix", "LogLabel", "Date", "FileName", "FunctionName",
                 "LineNumber", "Id", "Text"}

\* strconv.Itoa for the line numbers of the model (below 100)
Itoa(n) == IF n < 10 THEN <<DigitOf(n)>> ELSE <<DigitOf(n \div 10), DigitOf(n % 10)>>

\* The printed value of a field, and its truth in {{if}}.
Printed(f, name) == IF name = "LineNumber" THEN Itoa(f[name]) ELSE f[name]
Truth(f, name) == IF name = "LineNumber" THEN f[name] # 0 ELSE f[name] # <<>>

\* The node after the {{end}} that closes the {{if}} whose body starts at i.
RECURSIVE AfterEnd(_, _, _)
AfterEnd(tree, i, depth) ==
    IF i > Len(tree) THEN i
    ELSE IF tree[i].k = "end"
    THEN IF depth = 0 THEN i + 1 ELSE AfterEnd(tree, i + 1, depth - 1)
    ELSE IF tree[i].k = "if" THEN AfterEnd(tree, i + 1, depth + 1)
    ELSE AfterEnd(tree, i + 1, depth)

\* template.Execute: the nodes are written to out in order; a field the
\* record does not have stops the execution with an error, and what was
\* written before it stays in out.
RECURSIVE ExecFrom(_, _, _, _)
ExecFrom(tree, i, f, out) ==
    IF i > Len(tree) THEN [out |-> out, err |-> "nil"]
    ELSE IF tree[i].k = "lit" THEN ExecFrom(tree, i + 1, f, out \o tree[i].v)
    ELSE IF tree[i].k = "end" THEN ExecFrom(tree, i + 1, f, out)
    ELSE IF tree[i].v[1] \notin FormatFields THEN [out |-> out, err |-> "exec"]
    ELSE IF tree[i].k = "field"
    THEN ExecFrom(tree, i + 1, f, out \o Printed(f, tree[i].v[1]))
    ELSE IF Truth(f, tree[i].v[1]) THEN ExecFrom(tree, i + 1, f, out)
    ELSE ExecFrom(tree, AfterEnd(tree, i + 1, 0), f, out)

Execute(tree, f) == ExecFrom(tree, 1, f, <<>>)

\* The default template: the date, the prefix, the label, the id, the file
\* name, the function name, the line number and the text, each when set.
logFmt ==
    Opt("Date", <<" ">>) \o Opt("Prefix", <<" ">>) \o Opt("LogLabel", <<" ">>)
        \o Opt("Id", <<" ">>) \o Opt("FileName", <<":", " ">>)
        \o Opt("FunctionName", <<":", " ">>) \o Opt("LineNumber", <<":", " ">>)
        \o Opt("Text", <<>>)

(***************************************************************************)
(* Output streams.  A stream is named by the writer behind it.             *)
(***************************************************************************)
SinkIds == {"stdout", "file", "buf", "bad", "short"}

\* reflect.TypeOf(w).String()
TypeOf(w) == CASE w \in {"stdout", "file"} -> "*os.File"
               [] w = "buf" -> "*bytes.Buffer"
               [] OTHER -> "*log.writer"

\* The conventional console destinations (os.Stdout, os.Stderr).
IsConsole(w) == w = "stdout"

\* What the writer's Write does with the bytes it is given: "ok" takes them
\* all, "fail" returns an I/O error, "short" takes fewer and reports no error.
Behaviour(w) == CASE w = "bad" -> "fail" [] w = "short" -> "short" [] OTHER -> "ok"

\* The bytes reach a writer in two parts; a writer that fails or writes
\* short has taken the first part only.
FirstPart(n) == n \div 2

(***************************************************************************)
(* Callers.  A call site is what runtime.Caller(calldepth) finds for the   *)
(* calling goroutine: the function (its program counter), file and line.   *)
(***************************************************************************)
SiteF == [ok |-> TRUE, fn |-> <<"p", ".", "F">>, file |-> <<"/", "a", "/", "f">>, line |-> 7]
SiteG == [ok |-> TRUE, fn |-> <<"p", ".", "G">>, file |-> <<"/", "a", "/", "g">>, line |-> 12]
SiteNone == [ok |-> FALSE, fn |-> <<>>, file |-> <<>>, line |-> 0]

\* The last position of byte c in s at or above position lo, 0 when none.
LastIndex(s, c, lo) ==
    LET I == {i \in lo..Len(s) : s[i] = c}
    IN IF I = {} THEN 0 ELSE CHOOSE i \in I : \A j \in I : j <= i

\* src/logger.go:421-428: the loop stops above the first byte (i > 0).
ShortFile(file) ==
    LET i == LastIndex(file, "/", 2) IN IF i = 0 THEN file ELSE From(file, i + 1)

\* src/logger.go:432-438: the loop includes the first byte (i >= 0).
ShortFunc(fName) ==
    LET i == LastIndex(fName, ".", 1) IN IF i = 0 THEN fName ELSE From(fName, i + 1)

\* fmt.Sprintf("[%02.f]", float64(idNum)), for idNum below 100
IdString(idNum) == <<"[", DigitOf(idNum \div 10), DigitOf(idNum % 10), "]">>

\* now.Format(dateFormat): the layout, then the instant
FormatTime(now, layout) == layout \o <<"@", DigitOf(now)>>

\* strings.TrimLeft(text, "\n")
RECURSIVE TrimLeftNL(_)
TrimLeftNL(text) ==
    IF text # <<>> /\ Head(text) = NL THEN TrimLeftNL(Tail(text)) ELSE text

(***************************************************************************)
(* The logger and the goroutines that use it.                              *)
(***************************************************************************)
Procs == {"g1", "g2"}

VARIABLES
    mu,          \* logger.mu: "free" or the goroutine that holds it
    buf,         \* logger.buf
    dateFormat,  \* logger.dateFormat
    flags,       \* logger.flags
    level,       \* logger.level
    lastId,      \* logger.lastId
    ids,         \* logger.ids
    template,    \* logger.template (the parsed nodes)
    prefix,      \* logger.prefix
    streams,     \* logger.streams
    sinks,       \* the bytes each writer has taken, in order
    pc,          \* where each goroutine is in Fprint
    fr,          \* each goroutine's arguments, locals and results of Fprint
    clock,       \* the wall clock time.Now() reads
    wlog,        \* per writer, the Write calls made on it, in order
    tres,        \* the last SetTemplate call: its source, its result, the
                 \* template before it and the number of calls so far
    ncalls,      \* the number of Fprint calls made
    nsets,       \* the number of setter calls made
    args,        \* the arguments of a call of AnsiEscape or stripAnsi
    rets,        \* the results such calls returned, in order
    depth        \* the logger's hierarchy depth counter

logger == <<mu, buf, dateFormat, flags, level, lastId, ids, template, prefix, streams>>
vars == <<mu, buf, dateFormat, flags, level, lastId, ids, template, prefix, streams,
          sinks, pc, fr, clock, wlog, tres, ncalls, nsets, args, rets, depth>>

\* The state that the operations of src/logger.go leave as it is
outside == <<args, rets, depth>>

\* No call of such a function was made.
NoArgs == [fn |-> "none", c |-> <<>>, text |-> <<>>]

NoFormat == [Prefix |-> <<>>, LogLabel |-> <<>>, Date |-> <<>>, FileName |-> <<>>,
             FunctionName |-> <<>>, LineNumber |-> 0, Id |-> <<>>, Text |-> <<>>]

\* The frame of a goroutine that is not in a call.
NoFrame ==
    [call |-> 0, tn |-> 0, logLevel |-> LEVEL_ALL, text |-> <<>>, stream |-> "nil",
     site |-> SiteNone, lvl |-> LEVEL_ALL, now |-> 0,
     pgmC |-> <<>>, file |-> <<>>, line |-> 0, resolved |-> FALSE,
     hName |-> <<>>, idNum |-> 0, id |-> <<>>, fName |-> <<>>,
     trimedCount |-> 0, f |-> NoFormat, out |-> <<>>, execErr |-> "nil",
     finalText |-> <<>>, p |-> <<>>, ws |-> <<>>, i |-> 0,
     n |-> 0, err |-> "nil", emitted |-> FALSE,
     op |-> "Fprint", status |-> 0]

\* New(level, streams...) (src/logger.go:150-162)
New(lvl, ss) ==
    /\ mu = "free"
    /\ buf = <<>>
    /\ ids = <<>>
    /\ lastId = 0
    /\ streams = ss
    /\ dateFormat = defaultDate
    /\ flags = LstdFlags
    /\ level = lvl
    /\ template = Parse(logFmt).tree
    /\ prefix = defaultPrefixColor

\* No goroutine has called the logger and no writer was written.
StartLogger ==
    /\ sinks = [w \in SinkIds |-> <<>>]
    /\ pc = [g \in Procs |-> "idle"]
    /\ fr = [g \in Procs |-> NoFrame]
    /\ clock = 0
    /\ wlog = [w \in SinkIds |-> <<>>]
    /\ tres = [src |-> <<>>, err |-> "nil", n |-> 0, before |-> <<>>]
    /\ ncalls = 0
    /\ nsets = 0

Start ==
    /\ StartLogger
    /\ args = NoArgs
    /\ rets = <<>>
    /\ depth = 0

(***************************************************************************)
(* logger.Fprint (src/logger.go:379-510).                                  *)
(***************************************************************************)
\* The filter without the exemption of LEVEL_ALL.
FilteredNoAll(logLevel, lvl) == logLevel < lvl

\* The filter with the comparison off by one.
FilteredOffByOne(logLevel, lvl) ==
    (logLevel # LEVEL_ALL /\ lvl # LEVEL_ALL) /\ logLevel < lvl - 1

\* src/logger.go:382-383: the call is dropped
Filtered(logLevel, lvl) ==
    (logLevel # LEVEL_ALL /\ lvl # LEVEL_ALL) /\ logLevel < lvl

CallerFlags == {LlongFileName, LshortFileName, LfunctionName, Lid}

\* src/logger.go:379-387: entry, the level filter and time.Now(); now is the
\* wall clock at the call, which never runs backwards.  op is the method
\* that calls Fprint: a goroutine makes a call when it is in none, that is
\* at the start, after a call that returned to it or after it recovered.
Enter(g, op, logLevel, text, stream, site, now) ==
    /\ \/ pc[g] = "idle"
       \/ pc[g] = "done" /\ fr[g].op = "Fprint"
       \/ pc[g] = "recovered"
    /\ now >= clock
    /\ clock' = now
    /\ ncalls' = ncalls + 1
    /\ LET a == [NoFrame EXCEPT !.call = ncalls + 1, !.logLevel = logLevel,
                                !.text = text, !.stream = stream, !.site = site,
                                !.lvl = level, !.tn = tres.n, !.op = op]
       IN IF Filtered(logLevel, level)
          THEN /\ fr' = [fr EXCEPT ![g] = a]
               /\ pc' = [pc EXCEPT ![g] = "done"]
          ELSE /\ fr' = [fr EXCEPT ![g] = [a EXCEPT !.now = now]]
               /\ pc' = [pc EXCEPT ![g] = "lock"]
    /\ UNCHANGED <<logger, sinks, wlog, tres, nsets, outside>>

FprintCall(g, logLevel, text, stream, site, now) ==
    Enter(g, "Fprint", logLevel, text, stream, site, now)

\* src/logger.go:593-609: Fatalf, Fatal and Fatalln call Fprint
FatalCall(g, text, site, now) ==
    Enter(g, "Fatal", LEVEL_CRITICAL, text, "nil", site, now)

\* src/logger.go:611-627: Panicf, Panic and Panicln call Fprint
PanicCall(g, text, site, now) ==
    Enter(g, "Panic", LEVEL_CRITICAL, text, "nil", site, now)

\* The mutex is taken without waiting for it to be free.
LockNoWait(g) ==
    /\ pc[g] = "lock"
    /\ mu' = g
    /\ pc' = [pc EXCEPT ![g] = "flags"]
    /\ UNCHANGED <<buf, dateFormat, flags, level, lastId, ids, template, prefix,
                   streams, sinks, fr, clock, wlog, tres, ncalls, outside, nsets>>

\* src/logger.go:393: l.mu.Lock()
Lock(g) ==
    /\ pc[g] = "lock"
    /\ mu = "free"
    /\ mu' = g
    /\ pc' = [pc EXCEPT ![g] = "flags"]
    /\ UNCHANGED <<buf, dateFormat, flags, level, lastId, ids, template, prefix,
                   streams, sinks, fr, clock, wlog, tres, ncalls, outside, nsets>>

\* src/logger.go:396-398: the lock is released for the caller lookup
CheckFlags(g) ==
    /\ pc[g] = "flags"
    /\ IF FlagSet(flags, CallerFlags)
       THEN mu' = "free" /\ pc' = [pc EXCEPT ![g] = "caller"]
       ELSE mu' = mu /\ pc' = [pc EXCEPT ![g] = "reset"]
    /\ UNCHANGED <<buf, dateFormat, flags, level, lastId, ids, template, prefix,
                   streams, sinks, fr, clock, wlog, tres, ncalls, outside, nsets>>

\* src/logger.go:399-405: runtime.Caller(calldepth)
Caller(g) ==
    /\ pc[g] = "caller"
    /\ LET c == fr[g].site
       IN fr' = [fr EXCEPT ![g].resolved = TRUE,
                           ![g].pgmC = c.fn,
                           ![g].file = IF c.ok THEN c.file ELSE <<"?", "?", "?">>,
                           ![g].line = IF c.ok THEN c.line ELSE 0]
    /\ pc' = [pc EXCEPT ![g] = IF Lid \in flags THEN "idget" ELSE "names"]
    /\ UNCHANGED <<logger, sinks, clock, wlog, tres, ncalls, outside, nsets>>

\* src/logger.go:406-411: the lookup in the id table
IdGet(g) ==
    /\ pc[g] = "idget"
    /\ LET hName == fr[g].pgmC
       IN IF hName \in DOMAIN ids
          THEN /\ fr' = [fr EXCEPT ![g].hName = hName, ![g].idNum = ids[hName],
                                   ![g].id = IdString(ids[hName])]
               /\ pc' = [pc EXCEPT ![g] = "names"]
          ELSE /\ fr' = [fr EXCEPT ![g].hName = hName]
               /\ pc' = [pc EXCEPT ![g] = "idput"]
    /\ UNCHANGED <<logger, sinks, clock, wlog, tres, ncalls, outside, nsets>>

\* The counter is stepped before it is stored in the table.
IdPutNext(g) ==
    /\ pc[g] = "idput"
    /\ ids' = [h \in DOMAIN ids \cup {fr[g].hName} |->
                  IF h = fr[g].hName THEN lastId + 1 ELSE ids[h]]
    /\ pc' = [pc EXCEPT ![g] = "idnum"]
    /\ UNCHANGED <<mu, buf, dateFormat, flags, level, lastId, template, prefix,
                   streams, sinks, fr, clock, wlog, tres, ncalls, outside, nsets>>

\* src/logger.go:413: l.ids[hName] = l.lastId
IdPut(g) ==
    /\ pc[g] = "idput"
    /\ ids' = [h \in DOMAIN ids \cup {fr[g].hName} |->
                  IF h = fr[g].hName THEN lastId ELSE ids[h]]
    /\ pc' = [pc EXCEPT ![g] = "idnum"]
    /\ UNCHANGED <<mu, buf, dateFormat, flags, level, lastId, template, prefix,
                   streams, sinks, fr, clock, wlog, tres, ncalls, outside, nsets>>

\* src/logger.go:414: idNum = l.lastId
IdNum(g) ==
    /\ pc[g] = "idnum"
    /\ fr' = [fr EXCEPT ![g].idNum = lastId]
    /\ pc' = [pc EXCEPT ![g] = "idinc"]
    /\ UNCHANGED <<logger, sinks, clock, wlog, tres, ncalls, outside, nsets>>

\* src/logger.go:415-418: l.lastId += 1 and the id string
IdInc(g) ==
    /\ pc[g] = "idinc"
    /\ lastId' = lastId + 1
    /\ fr' = [fr EXCEPT ![g].id = IdString(fr[g].idNum)]
    /\ pc' = [pc EXCEPT ![g] = "names"]
    /\ UNCHANGED <<mu, buf, dateFormat, flags, level, ids, template, prefix,
                   streams, sinks, clock, wlog, tres, ncalls, outside, nsets>>

\* src/logger.go:420-439: the short file name and the function name
Names(g) ==
    /\ pc[g] = "names"
    /\ fr' = [fr EXCEPT ![g].file = IF LshortFileName \in flags
                                    THEN ShortFile(fr[g].file) ELSE fr[g].file,
                        ![g].fName = IF LfunctionName \in flags
                                     THEN ShortFunc(fr[g].pgmC) ELSE fr[g].fName]
    /\ pc' = [pc EXCEPT ![g] = "relock"]
    /\ UNCHANGED <<logger, sinks, clock, wlog, tres, ncalls, outside, nsets>>

\* The lock is not taken again after the caller lookup.
RelockMissing(g) ==
    /\ pc[g] = "relock"
    /\ pc' = [pc EXCEPT ![g] = "reset"]
    /\ UNCHANGED <<logger, sinks, fr, clock, wlog, tres, ncalls, outside, nsets>>

\* src/logger.go:440: l.mu.Lock()
Relock(g) ==
    /\ pc[g] = "relock"
    /\ mu = "free"
    /\ mu' = g
    /\ pc' = [pc EXCEPT ![g] = "reset"]
    /\ UNCHANGED <<buf, dateFormat, flags, level, lastId, ids, template, prefix,
                   streams, sinks, fr, clock, wlog, tres, ncalls, outside, nsets>>

\* src/logger.go:443-452: the scratch buffer is reset and filled
Reset(g) ==
    /\ pc[g] = "reset"
    /\ LET trimText == TrimLeftNL(fr[g].text)
           trimedCount == Len(fr[g].text) - Len(trimText)
       IN /\ buf' = IF trimedCount > 0 THEN trimText ELSE fr[g].text
          /\ fr' = [fr EXCEPT ![g].trimedCount = trimedCount]
    /\ pc' = [pc EXCEPT ![g] = "gather"]
    /\ UNCHANGED <<mu, dateFormat, flags, level, lastId, ids, template, prefix,
                   streams, sinks, clock, wlog, tres, ncalls, outside, nsets>>

\* src/logger.go:454-482: the format record
\* The date is that of the clock when the record is built.
FormatClock(g) ==
    [Prefix |-> IF LnoPrefix \notin flags THEN prefix ELSE <<>>,
     LogLabel |-> Label(fr[g].logLevel),
     Date |-> IF Ldate \in flags THEN FormatTime(clock, dateFormat) ELSE <<>>,
     FileName |-> IF FlagSet(flags, {LlongFileName, LshortFileName})
                  THEN fr[g].file ELSE <<>>,
     FunctionName |-> fr[g].fName,
     LineNumber |-> IF LlineNumber \in flags THEN fr[g].line ELSE 0,
     Id |-> fr[g].id,
     Text |-> buf]

\* The file name is not cleared when no file flag is set.
FormatKeepFile(g) ==
    [Prefix |-> IF LnoPrefix \notin flags THEN prefix ELSE <<>>,
     LogLabel |-> Label(fr[g].logLevel),
     Date |-> IF Ldate \in flags THEN FormatTime(fr[g].now, dateFormat) ELSE <<>>,
     FileName |-> fr[g].file,
     FunctionName |-> fr[g].fName,
     LineNumber |-> IF LlineNumber \in flags THEN fr[g].line ELSE 0,
     Id |-> fr[g].id,
     Text |-> buf]

Format(g) ==
    [Prefix |-> IF LnoPrefix \notin flags THEN prefix ELSE <<>>,
     LogLabel |-> Label(fr[g].logLevel),
     Date |-> IF Ldate \in flags THEN FormatTime(fr[g].now, dateFormat) ELSE <<>>,
     FileName |-> IF FlagSet(flags, {LlongFileName, LshortFileName})
                  THEN fr[g].file ELSE <<>>,
     FunctionName |-> fr[g].fName,
     LineNumber |-> IF LlineNumber \in flags THEN fr[g].line ELSE 0,
     Id |-> fr[g].id,
     Text |-> buf]

Gather(g) ==
    /\ pc[g] = "gather"
    /\ fr' = [fr EXCEPT ![g].f = Format(g)]
    /\ pc' = [pc EXCEPT ![g] = "render"]
    /\ UNCHANGED <<logger, sinks, clock, wlog, tres, ncalls, outside, nsets>>

\* The newlines are put back before the stripping, which then starts again
\* from the rendered output (as an earlier revision did).
FinalTextOld(out, trimedCount, fl) ==
    IF Lcolor \notin fl THEN stripAnsi(out)
    ELSE IF trimedCount > 0 THEN Repeat(NL, trimedCount) \o out
    ELSE out

\* src/logger.go:489-501: the text to write, from the rendered output
FinalText(out, trimedCount, fl) ==
    LET strippedText == IF Lcolor \notin fl THEN stripAnsi(out) ELSE <<>>
    IN IF trimedCount > 0 /\ Lcolor \notin fl THEN Repeat(NL, trimedCount) \o strippedText
       ELSE IF trimedCount > 0 /\ Lcolor \in fl THEN Repeat(NL, trimedCount) \o out
       ELSE IF Lcolor \notin fl THEN strippedText
       ELSE out

\* src/logger.go:484-501: the template is executed; its error is kept in err
\* until the write overwrites it
Render(g) ==
    /\ pc[g] = "render"
    /\ LET r == Execute(template, fr[g].f)
       IN fr' = [fr EXCEPT ![g].out = r.out, ![g].execErr = r.err, ![g].err = r.err,
                           ![g].finalText = FinalText(r.out, fr[g].trimedCount, flags)]
    /\ pc' = [pc EXCEPT ![g] = "dispatch"]
    /\ UNCHANGED <<logger, sinks, clock, wlog, tres, ncalls, outside, nsets>>

\* The stream given to the call is ignored.
DispatchRegistered(g) ==
    /\ pc[g] = "dispatch"
    /\ fr' = [fr EXCEPT ![g].emitted = TRUE, ![g].p = fr[g].finalText,
                        ![g].ws = streams, ![g].i = 1]
    /\ pc' = [pc EXCEPT ![g] = "wloop"]
    /\ UNCHANGED <<logger, sinks, clock, wlog, tres, ncalls, outside, nsets>>

\* The registered streams are gone through twice.
DispatchTwice(g) ==
    /\ pc[g] = "dispatch"
    /\ fr' = [fr EXCEPT ![g].emitted = TRUE, ![g].p = fr[g].finalText,
                        ![g].ws = IF fr[g].stream = "nil" THEN streams \o streams
                                  ELSE <<fr[g].stream>>,
                        ![g].i = 1]
    /\ pc' = [pc EXCEPT ![g] = IF fr[g].stream = "nil" THEN "wloop" ELSE "ocall"]
    /\ UNCHANGED <<logger, sinks, clock, wlog, tres, ncalls, outside, nsets>>

\* src/logger.go:503-507 and 559-560: the registered streams or the stream
\* given to the call
Dispatch(g) ==
    /\ pc[g] = "dispatch"
    /\ fr' = [fr EXCEPT ![g].emitted = TRUE, ![g].p = fr[g].finalText,
                        ![g].ws = IF fr[g].stream = "nil" THEN streams
                                  ELSE <<fr[g].stream>>,
                        ![g].i = 1]
    /\ pc' = [pc EXCEPT ![g] = IF fr[g].stream = "nil" THEN "wloop" ELSE "ocall"]
    /\ UNCHANGED <<logger, sinks, clock, wlog, tres, ncalls, outside, nsets>>

\* The number of Write calls made on the writers so far
RECURSIVE SumLen(_)
SumLen(W) == IF W = {} THEN 0
             ELSE LET w == CHOOSE x \in W : TRUE IN Len(wlog[w]) + SumLen(W \ {w})
Writes == SumLen(SinkIds)

\* A writer's Write is entered with bytes p: the first part reaches it.
SinkEnter(g, w, p) ==
    /\ sinks' = [sinks EXCEPT ![w] = @ \o SubSeq(p, 1, FirstPart(Len(p)))]
    /\ wlog' = [wlog EXCEPT ![w] = Append(@, [g |-> g, call |-> fr[g].call,
                                              seq |-> Writes + 1, data |-> p,
                                              got |-> FirstPart(Len(p))])]

\* The entry of wlog[w] for the Write in progress by g
Pending(g, w) ==
    CHOOSE k \in 1..Len(wlog[w]) :
        /\ wlog[w][k].g = g /\ wlog[w][k].call = fr[g].call
        /\ \A j \in k + 1..Len(wlog[w]) : wlog[w][j].g # g

\* The Write returns: n and err, the rest of the bytes taken when it succeeds.
SinkTaken(w, p) == IF Behaviour(w) = "ok" THEN Len(p) ELSE FirstPart(Len(p))
SinkErr(w) == IF Behaviour(w) = "fail" THEN "EIO" ELSE "nil"

SinkLeave(g, w, p) ==
    /\ sinks' = [sinks EXCEPT ![w] = @ \o SubSeq(p, FirstPart(Len(p)) + 1, SinkTaken(w, p))]
    /\ wlog' = [wlog EXCEPT ![w][Pending(g, w)].got = SinkTaken(w, p)]

\* src/logger.go:561: the stream's bytes are stripped
StripsFor(w, fl) == TypeOf(w) = "*os.File" /\ LnoFileAnsi \in fl

\* src/logger.go:560-565: the next stream's Write is called
WriteCall(g) ==
    /\ pc[g] = "wloop"
    /\ fr[g].i <= Len(fr[g].ws)
    /\ LET w == fr[g].ws[fr[g].i]
           p == IF StripsFor(w, flags) THEN stripAnsiByte(fr[g].p) ELSE fr[g].p
       IN /\ fr' = [fr EXCEPT ![g].p = p]
          /\ SinkEnter(g, w, p)
    /\ pc' = [pc EXCEPT ![g] = "wret"]
    /\ UNCHANGED <<logger, clock, tres, ncalls, outside, nsets>>

\* The stream's error is not looked at.
CheckedIgnoreErr(n, err, p) == IF n # Len(p) THEN "ErrShortWrite" ELSE "next"

\* The number of bytes the stream took is not looked at.
CheckedIgnoreShort(n, err, p) == IF err # "nil" THEN err ELSE "next"

\* src/logger.go:567-573: what Write does with the n and err of a stream's
\* Write of p: return err, return io.ErrShortWrite, or go on ("next")
Checked(n, err, p) ==
    IF err # "nil" THEN err
    ELSE IF n # Len(p) THEN "ErrShortWrite"
    ELSE "next"

\* src/logger.go:563-573: the stream's Write returns
WriteRet(g) ==
    /\ pc[g] = "wret"
    /\ LET w == fr[g].ws[fr[g].i]
           n == SinkTaken(w, fr[g].p)
           c == Checked(n, SinkErr(w), fr[g].p)
       IN /\ SinkLeave(g, w, fr[g].p)
          /\ IF c # "next"
             THEN /\ fr' = [fr EXCEPT ![g].n = n, ![g].err = c]
                  /\ pc' = [pc EXCEPT ![g] = "ret"]
             ELSE /\ fr' = [fr EXCEPT ![g].n = n, ![g].err = "nil", ![g].i = @ + 1]
                  /\ pc' = [pc EXCEPT ![g] = "wloop"]
    /\ UNCHANGED <<logger, clock, tres, ncalls, outside, nsets>>

\* The length returned is that of the bytes Write was called with.
WriteEndFirst(g) ==
    /\ pc[g] = "wloop"
    /\ fr[g].i > Len(fr[g].ws)
    /\ fr' = [fr EXCEPT ![g].n = Len(fr[g].finalText), ![g].err = "nil"]
    /\ pc' = [pc EXCEPT ![g] = "ret"]
    /\ UNCHANGED <<logger, sinks, clock, wlog, tres, ncalls, outside, nsets>>

\* src/logger.go:575: return len(p), nil
WriteEnd(g) ==
    /\ pc[g] = "wloop"
    /\ fr[g].i > Len(fr[g].ws)
    /\ fr' = [fr EXCEPT ![g].n = Len(fr[g].p), ![g].err = "nil"]
    /\ pc' = [pc EXCEPT ![g] = "ret"]
    /\ UNCHANGED <<logger, sinks, clock, wlog, tres, ncalls, outside, nsets>>

\* src/logger.go:506: stream.Write([]byte(finalText)) is called
StreamCall(g) ==
    /\ pc[g] = "ocall"
    /\ SinkEnter(g, fr[g].stream, fr[g].p)
    /\ pc' = [pc EXCEPT ![g] = "oret"]
    /\ UNCHANGED <<logger, fr, clock, tres, ncalls, outside, nsets>>

\* src/logger.go:506: n, err are what the stream's Write returns
StreamRet(g) ==
    /\ pc[g] = "oret"
    /\ SinkLeave(g, fr[g].stream, fr[g].p)
    /\ fr' = [fr EXCEPT ![g].n = SinkTaken(fr[g].stream, fr[g].p),
                        ![g].err = SinkErr(fr[g].stream)]
    /\ pc' = [pc EXCEPT ![g] = "ret"]
    /\ UNCHANGED <<logger, clock, tres, ncalls, outside, nsets>>

\* The call returns without the deferred unlock.
ReturnHeld(g) ==
    /\ pc[g] = "ret"
    /\ pc' = [pc EXCEPT ![g] = "done"]
    /\ UNCHANGED <<logger, sinks, fr, clock, wlog, tres, ncalls, outside, nsets>>

\* src/logger.go:394 and 509: return, the deferred l.mu.Unlock()
Return(g) ==
    /\ pc[g] = "ret"
    /\ mu' = "free"
    /\ pc' = [pc EXCEPT ![g] = "done"]
    /\ UNCHANGED <<buf, dateFormat, flags, level, lastId, ids, template, prefix,
                   streams, sinks, fr, clock, wlog, tres, ncalls, outside, nsets>>

\* The process is running: os.Exit has not been called.
Alive == \A g \in Procs : pc[g] # "exited"

\* The process exits while Fprint is still running.
ExitEarly(g) ==
    /\ pc[g] \notin {"idle", "exited", "panicked", "recovered"}
    /\ fr[g].op = "Fatal"
    /\ pc' = [pc EXCEPT ![g] = "exited"]
    /\ fr' = [fr EXCEPT ![g].status = 1]
    /\ UNCHANGED <<logger, sinks, clock, wlog, tres, ncalls, outside, nsets>>

\* src/logger.go:596, 602, 608: os.Exit(1) once Fprint has returned
Exit(g) ==
    /\ pc[g] = "done"
    /\ fr[g].op = "Fatal"
    /\ pc' = [pc EXCEPT ![g] = "exited"]
    /\ fr' = [fr EXCEPT ![g].status = 1]
    /\ UNCHANGED <<logger, sinks, clock, wlog, tres, ncalls, outside, nsets>>

\* The panic is raised while Fprint is still running.
RaisePanicEarly(g) ==
    /\ pc[g] \notin {"idle", "exited", "panicked", "recovered"}
    /\ fr[g].op = "Panic"
    /\ pc' = [pc EXCEPT ![g] = "panicked"]
    /\ UNCHANGED <<logger, sinks, fr, clock, wlog, tres, ncalls, outside, nsets>>

\* src/logger.go:614, 620, 626: panic(v) once Fprint has returned
RaisePanic(g) ==
    /\ pc[g] = "done"
    /\ fr[g].op = "Panic"
    /\ pc' = [pc EXCEPT ![g] = "panicked"]
    /\ UNCHANGED <<logger, sinks, fr, clock, wlog, tres, ncalls, outside, nsets>>

\* The caller recovers the panic in a deferred function
\* (src/README.rst:399-447).
Recover(g) ==
    /\ pc[g] = "panicked"
    /\ pc' = [pc EXCEPT ![g] = "recovered"]
    /\ UNCHANGED <<logger, sinks, fr, clock, wlog, tres, ncalls, outside, nsets>>

(***************************************************************************)
(* The setters (src/logger.go:517-555); none takes the mutex.              *)
(***************************************************************************)
\* The template is assigned before the error of Parse is looked at.
SetTemplateAlways(temp) ==
    /\ LET r == Parse(temp)
       IN /\ template' = r.tree
          /\ tres' = [src |-> temp, err |-> IF r.err THEN "parse" ELSE "nil",
                      n |-> tres.n + 1, before |-> template]
    /\ nsets' = nsets + 1
    /\ UNCHANGED <<mu, buf, dateFormat, flags, level, lastId, ids, prefix, streams,
                   sinks, pc, fr, clock, wlog, ncalls, outside>>

\* src/logger.go:517-524
SetTemplate(temp) ==
    /\ LET r == Parse(temp)
       IN IF r.err
          THEN /\ template' = template
               /\ tres' = [src |-> temp, err |-> "parse", n |-> tres.n + 1,
                           before |-> template]
          ELSE /\ template' = r.tree
               /\ tres' = [src |-> temp, err |-> "nil", n |-> tres.n + 1,
                           before |-> template]
    /\ nsets' = nsets + 1
    /\ UNCHANGED <<mu, buf, dateFormat, flags, level, lastId, ids, prefix, streams,
                   sinks, pc, fr, clock, wlog, ncalls, outside>>

SetDateFormat(format) ==
    /\ dateFormat' = format
    /\ nsets' = nsets + 1
    /\ UNCHANGED <<mu, buf, flags, level, lastId, ids, template, prefix, streams,
                   sinks, pc, fr, clock, wlog, tres, ncalls, outside>>

SetFlags(fl) ==
    /\ flags' = fl
    /\ nsets' = nsets + 1
    /\ UNCHANGED <<mu, buf, dateFormat, level, lastId, ids, template, prefix, streams,
                   sinks, pc, fr, clock, wlog, tres, ncalls, outside>>

SetLevel(lvl) ==
    /\ level' = lvl
    /\ nsets' = nsets + 1
    /\ UNCHANGED <<mu, buf, dateFormat, flags, lastId, ids, template, prefix, streams,
                   sinks, pc, fr, clock, wlog, tres, ncalls, outside>>

SetPrefix(pre) ==
    /\ prefix' = pre
    /\ nsets' = nsets + 1
    /\ UNCHANGED <<mu, buf, dateFormat, flags, level, lastId, ids, template, streams,
                   sinks, pc, fr, clock, wlog, tres, ncalls, outside>>

SetStreams(ss) ==
    /\ streams' = ss
    /\ nsets' = nsets + 1
    /\ UNCHANGED <<mu, buf, dateFormat, flags, level, lastId, ids, template, prefix,
                   sinks, pc, fr, clock, wlog, tres, ncalls, outside>>

(***************************************************************************)
(* Inputs.                                                                 *)
(***************************************************************************)
MaxCalls == 2
MaxSeqCalls == 2
MaxSets == 1
MaxColorCalls == 1
MaxIdCalls == 3
MaxIdSets == 2

TextPlain == <<"h", "i">>
TextNewlines == <<NL, NL, "h", NL>>
TextColor == <<ESC, "[", "1", "m", "x">>
TextNested == <<NL, ESC, "[", ESC, "[", "1", "m", "1", "m", "x">>

PrefixPlain == <<">">>

RubyDate == <<"R">>

TemplateText == <<Open, Fld("Text"), Close>>
TemplateUnclosed == <<Open, Fld("Text")>>
TemplateNoEnd == <<Open, IfFld("Text"), Close, Open, Fld("Text"), Close>>
TemplateBadField == <<Open, Fld("Prefix"), Close, Lit(<<"|">>), Open, Fld("Tes"), Close,
                      Open, Fld("Text"), Close>>

\* The call site of each goroutine, and the level and the stream it logs with
SiteOf(g) == IF g = "g1" THEN SiteF ELSE SiteG
LevelOf(g) == IF g = "g1" THEN LEVEL_ALL ELSE LEVEL_ERROR
StreamOf(g) == IF g = "g1" THEN "nil" ELSE "buf"

\* No goroutine is inside a call.
Quiet == \A g \in Procs : pc[g] \in {"idle", "done", "recovered"}

\* The steps of a call that take no input: the lock, the record and the
\* rendering; the caller lookup; the registered streams; the stream given to
\* the call.
Core(g) ==
    \/ Lock(g)
    \/ CheckFlags(g)
    \/ Reset(g)
    \/ Gather(g)
    \/ Render(g)
    \/ Dispatch(g)
    \/ Return(g)

Lookup(g) ==
    \/ Caller(g)
    \/ IdGet(g)
    \/ IdPut(g)
    \/ IdNum(g)
    \/ IdInc(g)
    \/ Names(g)
    \/ Relock(g)

Registered(g) ==
    \/ WriteCall(g)
    \/ WriteRet(g)
    \/ WriteEnd(g)

Override(g) ==
    \/ StreamCall(g)
    \/ StreamRet(g)

Step(g) == Core(g) \/ Lookup(g) \/ Registered(g) \/ Override(g)

(***************************************************************************)
(* Spec: two goroutines log through one logger while it is reconfigured.   *)
(***************************************************************************)
Init ==
    /\ New(LEVEL_INFO, <<"buf", "file">>)
    /\ Start

Next ==
    \/ \E g \in Procs :
          /\ ncalls < MaxCalls
          /\ FprintCall(g, LevelOf(g), TextPlain, StreamOf(g), SiteOf(g), clock + 1)
    \/ \E g \in Procs : Step(g)
    \/ nsets < MaxSets /\ SetFlags({Lcolor, Lid, LfunctionName})
    \/ nsets < MaxSets /\ SetLevel(LEVEL_CRITICAL)
    \/ nsets < MaxSets /\ SetPrefix(PrefixPlain)
    \/ nsets < MaxSets /\ SetDateFormat(RubyDate)
    \/ nsets < MaxSets /\ SetTemplate(TemplateText)
    \/ nsets < MaxSets /\ SetStreams(<<"file">>)

Spec == Init /\ [][Next]_vars

(***************************************************************************)
(* C1: at most one call at a time is in the section that resets and fills  *)
(* the scratch buffer, renders the template and writes to the streams, and *)
(* the bytes each writer holds are the records written to it one after the *)
(* other, each contiguous; also for calls that released and re-acquired    *)
(* the mutex around the caller lookup.                                     *)
(***************************************************************************)
Section == {"reset", "gather", "render", "dispatch", "wloop", "wret", "ocall", "oret", "ret"}

\* What the Write calls on writer w delivered, one call after the other
Delivered(w) == Concat([k \in 1..Len(wlog[w]) |-> SubSeq(wlog[w][k].data, 1, wlog[w][k].got)])

C1_OneRecordAtATime ==
    /\ \A g \in Procs : pc[g] \in Section => mu = g
    /\ \A g, h \in Procs : (pc[g] \in Section /\ pc[h] \in Section) => g = h
    /\ \A w \in SinkIds : sinks[w] = Delivered(w)

\* Both goroutines have written a record to the same writer, one of them
\* after the caller lookup.
C1_Witness ==
    /\ \A g \in Procs : pc[g] = "done" /\ fr[g].emitted
    /\ \E g \in Procs : fr[g].resolved
    /\ \E w \in SinkIds : \E j, k \in 1..Len(wlog[w]) :
          wlog[w][j].g # wlog[w][k].g /\ Len(wlog[w][j].data) > 1

(***************************************************************************)
(* SpecLevel: one goroutine logs at every level, to the registered streams *)
(* or to a stream of its own, through a logger made with any threshold;    *)
(* between calls the flags may be set so that callers are looked up.       *)
(***************************************************************************)
InitLevel ==
    /\ \E lvl \in Levels : New(lvl, <<"buf">>)
    /\ Start

NextLevel ==
    \/ \E logLevel \in Levels :
          /\ ncalls < MaxSeqCalls
          /\ Quiet
          /\ FprintCall("g1", logLevel, TextPlain, "nil", SiteF, clock)
    \/ \E logLevel \in {LEVEL_DEBUG, LEVEL_ALL} :
          /\ ncalls < MaxSeqCalls
          /\ Quiet
          /\ FprintCall("g1", logLevel, TextPlain, "file", SiteF, clock)
    \/ Step("g1")
    \/ nsets < MaxSets /\ Quiet /\ SetFlags({Lcolor, Lid})

SpecLevel == InitLevel /\ [][NextLevel]_vars

\* The calls made so far that reached a writer
Wrote(call) == \E w \in SinkIds : \E k \in 1..Len(wlog[w]) : wlog[w][k].call = call

\* enabled(L, T) as the specification defines it
Enabled(L, T) == L = LEVEL_ALL \/ T = LEVEL_ALL \/ L >= T

(***************************************************************************)
(* C3: a call at level L on a logger whose level is T emits a record if    *)
(* and only if L = ALL or T = ALL or L >= T; a call at level ALL emits at  *)
(* every threshold.                                                        *)
(***************************************************************************)
C3_EmitsIffEnabled ==
    \A g \in Procs :
        (pc[g] = "done" /\ fr[g].call > 0) =>
            /\ Wrote(fr[g].call) <=> Enabled(fr[g].logLevel, fr[g].lvl)
            /\ fr[g].emitted <=> Enabled(fr[g].logLevel, fr[g].lvl)
            /\ fr[g].logLevel = LEVEL_ALL => Wrote(fr[g].call)

\* A call below LEVEL_ALL has emitted through a logger at LEVEL_ALL, after a
\* call at LEVEL_ALL that emitted too.
C3_Witness ==
    /\ pc["g1"] = "done" /\ fr["g1"].call = 2
    /\ fr["g1"].logLevel = LEVEL_DEBUG /\ fr["g1"].lvl = LEVEL_ALL
    /\ Wrote(2) /\ Wrote(1)

(***************************************************************************)
(* C4: a call whose level is disabled returns (0, nil) and changes         *)
(* nothing: no writer is written, the caller is not looked up, and the id  *)
(* table, its counter and the scratch buffer stay as they were.            *)
(***************************************************************************)
C4_DisabledChangesNothing ==
    [][\A g \in Procs :
          (fr'[g].call # fr[g].call /\ ~Enabled(fr'[g].logLevel, level)) =>
              /\ pc'[g] = "done"
              /\ fr'[g].n = 0 /\ fr'[g].err = "nil"
              /\ ~fr'[g].resolved /\ ~fr'[g].emitted
              /\ UNCHANGED <<sinks, wlog, ids, lastId, buf, mu>>]_vars

\* A disabled call has returned on a logger that looks callers up and whose
\* id table and scratch buffer an earlier call has filled.
C4_Witness ==
    /\ pc["g1"] = "done" /\ fr["g1"].call = 2
    /\ ~Enabled(fr["g1"].logLevel, fr["g1"].lvl)
    /\ Lid \in flags /\ DOMAIN ids # {} /\ buf # <<>> /\ Wrote(1)
    /\ fr["g1"].n = 0 /\ ~fr["g1"].resolved

(***************************************************************************)
(* SpecErr: one goroutine logs through a logger whose streams include one  *)
(* that fails or one that writes short, while templates, well formed and   *)
(* not, are installed.                                                     *)
(***************************************************************************)
ErrStreams == {<<"buf", "bad", "file">>, <<"buf", "short", "file">>,
               <<"bad", "buf">>, <<"buf", "file">>}

Templates == {TemplateText, TemplateUnclosed, TemplateNoEnd, TemplateBadField}

InitErr ==
    /\ \E ss \in ErrStreams : New(LEVEL_DEBUG, ss)
    /\ Start

NextErr ==
    \/ \E stream \in {"nil", "short"} :
          /\ ncalls < MaxSeqCalls
          /\ Quiet
          /\ FprintCall("g1", LEVEL_ALL, TextPlain, stream, SiteF, clock)
    \/ Core("g1")
    \/ Registered("g1")
    \/ Override("g1")
    \/ \E temp \in Templates : nsets < MaxSets /\ SetTemplate(temp)

SpecErr == InitErr /\ [][NextErr]_vars

\* The Write calls a call made on writer w
EntriesOf(w, call) == {k \in 1..Len(wlog[w]) : wlog[w][k].call = call}

\* The first of the streams ws that does not take all its bytes without an
\* error, Len(ws) + 1 when every stream does
FirstStop(ws) ==
    LET I == {i \in 1..Len(ws) : Behaviour(ws[i]) # "ok"}
    IN IF I = {} THEN Len(ws) + 1 ELSE CHOOSE i \in I : \A j \in I : i <= j

IsSuffix(a, b) == Len(a) <= Len(b) /\ SubSeq(b, Len(b) - Len(a) + 1, Len(b)) = a

\* A call through the registered streams that has returned
Returned(g) == pc[g] = "done" /\ fr[g].emitted /\ fr[g].stream = "nil"

(***************************************************************************)
(* C2: when the template fails to render, no writer receives any bytes and *)
(* the call returns the error of the rendering.                            *)
(***************************************************************************)
C2_RenderFailureWritesNothing ==
    \A g \in Procs :
        (pc[g] = "done" /\ fr[g].execErr # "nil") =>
            /\ ~Wrote(fr[g].call)
            /\ fr[g].err = fr[g].execErr

(***************************************************************************)
(* C8: Write calls the registered streams in their order and stops at the  *)
(* first whose Write returns an error; the call returns that error, the    *)
(* streams before it hold the full record and the streams after it are not *)
(* written.                                                                *)
(***************************************************************************)
C8_StopsAtFirstError ==
    \A g \in Procs :
        Returned(g) =>
            LET ws == fr[g].ws
                k == FirstStop(ws)
                c == fr[g].call
            IN /\ \A i \in 1..Len(ws) : i <= k <=> EntriesOf(ws[i], c) # {}
               /\ \A i, j \in 1..Len(ws) : \A a \in EntriesOf(ws[i], c), b \in EntriesOf(ws[j], c) :
                     i < j => wlog[ws[i]][a].seq < wlog[ws[j]][b].seq
               /\ \A i \in 1..Len(ws) : i < k =>
                     \A a \in EntriesOf(ws[i], c) :
                        /\ wlog[ws[i]][a].got = Len(wlog[ws[i]][a].data)
                        /\ IsSuffix(wlog[ws[i]][a].data, sinks[ws[i]])
                        /\ wlog[ws[i]][a].data \in
                              {fr[g].finalText, stripAnsiByte(fr[g].finalText)}
               /\ (k <= Len(ws) /\ Behaviour(ws[k]) = "fail") => fr[g].err = "EIO"
               /\ k > Len(ws) => fr[g].err = "nil"

\* A call has returned the error of the second of three streams: the first
\* holds the record and the third holds nothing.
C8_Witness ==
    /\ Returned("g1") /\ fr["g1"].ws = <<"buf", "bad", "file">>
    /\ fr["g1"].err = "EIO"
    /\ sinks["buf"] # <<>> /\ sinks["file"] = <<>>
    /\ EntriesOf("bad", fr["g1"].call) # {}

(***************************************************************************)
(* C9: when a registered stream's Write reports fewer bytes than it was    *)
(* given and no error, the call returns io.ErrShortWrite and the streams   *)
(* registered after it are not written.                                    *)
(***************************************************************************)
C9_ShortWriteIsAnError ==
    \A g \in Procs :
        Returned(g) =>
            LET ws == fr[g].ws
                c == fr[g].call
            IN \A i \in 1..Len(ws) :
                  (\E a \in EntriesOf(ws[i], c) :
                       wlog[ws[i]][a].got < Len(wlog[ws[i]][a].data) /\ SinkErr(ws[i]) = "nil")
                  => /\ fr[g].err = "ErrShortWrite"
                     /\ \A j \in i + 1..Len(ws) : EntriesOf(ws[j], c) = {}

\* The second of three streams has taken a part of the record and the call
\* has returned.
C9_Witness ==
    /\ Returned("g1") /\ fr["g1"].ws = <<"buf", "short", "file">>
    /\ \E a \in EntriesOf("short", fr["g1"].call) :
          wlog["short"][a].got < Len(wlog["short"][a].data) /\ wlog["short"][a].got > 0
    /\ sinks["buf"] # <<>> /\ sinks["file"] = <<>>

(***************************************************************************)
(* C10: SetTemplate with a malformed source returns an error and leaves    *)
(* the template as it was, so the calls that follow render with the        *)
(* template installed before; the template is replaced only when the       *)
(* source compiles.                                                        *)
(***************************************************************************)
Malformed == {TemplateUnclosed, TemplateNoEnd}

Rendered == {"dispatch", "wloop", "wret", "ocall", "oret", "ret", "done"}

C10_BadTemplateKeepsOld ==
    /\ (tres.n > 0 /\ tres.src \in Malformed) => tres.err # "nil"
    /\ (tres.n > 0 /\ tres.err # "nil") => template = tres.before
    /\ (tres.n > 0 /\ template # tres.before) => tres.err = "nil"
    /\ \A g \in Procs :
          (pc[g] \in Rendered /\ fr[g].call > 0 /\ fr[g].emitted
              /\ fr[g].tn = tres.n /\ tres.n > 0 /\ tres.err # "nil") =>
                fr[g].out = Execute(tres.before, fr[g].f).out

\* A call made after a SetTemplate that failed has written its record.
C10_Witness ==
    /\ tres.src = TemplateUnclosed /\ tres.err # "nil"
    /\ pc["g1"] = "done" /\ fr["g1"].tn = tres.n /\ Wrote(fr["g1"].call)
    /\ fr["g1"].out # <<>> /\ fr["g1"].execErr = "nil"

(***************************************************************************)
(* SpecColor: one goroutine logs plain, coloured and newline-led text      *)
(* through a logger whose streams are the console, a file and a buffer in  *)
(* some order, with and without Lcolor and LnoFileAnsi.                    *)
(***************************************************************************)
ColorStreams == {<<"stdout", "buf", "file">>, <<"buf", "file", "stdout">>,
                 <<"file", "stdout", "buf">>}

Texts == {TextPlain, TextNewlines, TextColor, TextNested}

ColorFlags == {{Ldate, LnoFileAnsi}, {Lcolor}, {LnoPrefix}}

InitColor ==
    /\ \E ss \in ColorStreams : New(LEVEL_DEBUG, ss)
    /\ Start

NextColor ==
    \/ \E text \in Texts :
          /\ ncalls < MaxColorCalls
          /\ Quiet
          /\ FprintCall("g1", LEVEL_INFO, text, "nil", SiteF, clock)
    \/ \E text \in Texts :
          /\ ncalls < MaxColorCalls
          /\ Quiet
          /\ FprintCall("g1", LEVEL_ALL, text, "buf", SiteF, clock)
    \/ Core("g1")
    \/ Registered("g1")
    \/ Override("g1")
    \/ \E fl \in ColorFlags : nsets < MaxSets /\ Quiet /\ SetFlags(fl)
    \/ nsets < MaxSets /\ Quiet /\ SetTemplate(TemplateText)

SpecColor == InitColor /\ [][NextColor]_vars

\* The writes of a call are over and the logger is as the call found it.
Written(g) == pc[g] = "ret" /\ fr[g].emitted

(***************************************************************************)
(* C5: with Lcolor and LnoFileAnsi set and several registered streams, in  *)
(* every order the console receives the record with its escape sequences   *)
(* and every other stream receives it with the escape sequences stripped.  *)
(***************************************************************************)
C5_StrippedByKind ==
    \A g \in Procs :
        (Written(g) /\ fr[g].stream = "nil" /\ Lcolor \in flags /\ LnoFileAnsi \in flags) =>
            \A i \in 1..Len(fr[g].ws) :
                \A a \in EntriesOf(fr[g].ws[i], fr[g].call) :
                    wlog[fr[g].ws[i]][a].data =
                        IF IsConsole(fr[g].ws[i]) THEN fr[g].finalText
                        ELSE stripAnsi(fr[g].finalText)

(***************************************************************************)
(* C6: when Lcolor is not set, the bytes a call writes hold no substring   *)
(* that matches ESC '[' {digit | ';'}+ 'm', whatever the text and the      *)
(* stream.                                                                 *)
(***************************************************************************)
C6_NoEscapeWithoutColor ==
    \A g \in Procs :
        (Written(g) /\ Lcolor \notin flags) =>
            \A w \in SinkIds : \A a \in EntriesOf(w, fr[g].call) :
                ~HasAnsi(wlog[w][a].data)

(***************************************************************************)
(* C7: for a text that begins with k >= 0 newlines, the bytes written are  *)
(* k newlines followed by the rendering of the text without them, with     *)
(* Lcolor set and with Lcolor unset.                                       *)
(***************************************************************************)
RECURSIVE LeadingNewlines(_)
LeadingNewlines(text) ==
    IF text # <<>> /\ text[1] = NL THEN 1 + LeadingNewlines(Tail(text)) ELSE 0

\* s after n passes of the stripper (one for each stream of the call that
\* strips)
RECURSIVE Passes(_, _)
Passes(s, n) == IF n = 0 THEN s ELSE Passes(stripAnsi(s), n - 1)

C7_LeadingNewlinesKept ==
    \A g \in Procs :
        Written(g) =>
            LET k == LeadingNewlines(fr[g].text)
                rest == From(fr[g].text, k + 1)
                body == Execute(template, [Format(g) EXCEPT !.Text = rest]).out
                rendering == IF Lcolor \in flags THEN body ELSE stripAnsi(body)
            IN /\ fr[g].finalText = Repeat(NL, k) \o rendering
               /\ \A w \in SinkIds : \A a \in EntriesOf(w, fr[g].call) :
                     \E n \in 0..Len(fr[g].ws) :
                        wlog[w][a].data = Repeat(NL, k) \o Passes(rendering, n)
               /\ Wrote(fr[g].call)

\* A text led by two newlines has been written without Lcolor.
C7_Witness ==
    /\ Written("g1") /\ fr["g1"].text = TextNewlines /\ Lcolor \notin flags
    /\ fr["g1"].stream = "nil"
    /\ \A i \in 1..3 : EntriesOf(fr["g1"].ws[i], fr["g1"].call) # {}
    /\ SubSeq(sinks["buf"], 1, 3) = <<NL, NL, "D">>

(***************************************************************************)
(* C11: SetTemplate accepts a well-formed template that names a field the  *)
(* format record does not have (it returns nil and installs it), and the   *)
(* first enabled call made afterwards panics instead of returning.         *)
(***************************************************************************)
C11_BadFieldPanics ==
    /\ (tres.n > 0 /\ tres.src = TemplateBadField) =>
          tres.err = "nil" /\ template = Parse(TemplateBadField).tree
    /\ \A g \in Procs :
          (tres.n > 0 /\ tres.src = TemplateBadField
              /\ fr[g].call > 0 /\ fr[g].tn = tres.n
              /\ Enabled(fr[g].logLevel, fr[g].lvl)) =>
                pc[g] # "done"

(***************************************************************************)
(* C12: the setters are serialized with the write path by the mutex: while *)
(* a call holds the mutex between the reset of the scratch buffer and its  *)
(* return, no setter changes the flags, the level, the prefix, the date    *)
(* format, the template or the streams, so the call renders and writes     *)
(* from one configuration.                                                 *)
(***************************************************************************)
C12_SettersUnderMutex ==
    [][(\E g \in Procs : mu = g /\ pc[g] \in Section) =>
          UNCHANGED <<flags, level, prefix, dateFormat, template, streams>>]_vars

(***************************************************************************)
(* C13: the id table and its counter are read and written only by a call   *)
(* that holds the mutex.                                                   *)
(***************************************************************************)
IdSteps == {"idget", "idput", "idnum", "idinc"}

C13_IdsUnderMutex == \A g \in Procs : pc[g] \in IdSteps => mu = g

(***************************************************************************)
(* SpecId: one goroutine logs from two functions, one call at a time,      *)
(* while Lid and LfunctionName are set and cleared between the calls.      *)
(***************************************************************************)
IdFlags == {{Lcolor, Lid}, {Lcolor, LfunctionName}}

InitId ==
    /\ New(LEVEL_DEBUG, <<"buf">>)
    /\ Start

NextId ==
    \/ \E site \in {SiteF, SiteG} :
          /\ ncalls < MaxIdCalls
          /\ Quiet
          /\ FprintCall("g1", LEVEL_INFO, TextPlain, "nil", site, clock)
    \/ Core("g1")
    \/ Lookup("g1")
    \/ Registered("g1")
    \/ \E fl \in IdFlags : nsets < MaxIdSets /\ Quiet /\ SetFlags(fl)

SpecId == InitId /\ [][NextId]_vars

(***************************************************************************)
(* C14: with Lid set and calls made one at a time, the k-th distinct       *)
(* calling function is given id k-1, every later call from it shows that   *)
(* id, and the table never loses or changes an entry; with Lid not set the *)
(* table and its counter are not modified.                                 *)
(***************************************************************************)
C14_IdsInOrder ==
    /\ [](\A g \in Procs :
            Written(g) =>
                IF Lid \in flags
                THEN /\ fr[g].site.fn \in DOMAIN ids
                     /\ fr[g].f.Id = IdString(ids[fr[g].site.fn])
                     /\ \E a \in EntriesOf("buf", fr[g].call) :
                           \E i \in 1..Len(wlog["buf"][a].data) :
                              IsPrefix(IdString(ids[fr[g].site.fn]),
                                       From(wlog["buf"][a].data, i))
                ELSE fr[g].f.Id = <<>>)
    /\ [][/\ \A h \in DOMAIN ids : h \in DOMAIN ids' /\ ids'[h] = ids[h]
          /\ \A h \in DOMAIN ids' \ DOMAIN ids : ids'[h] = Cardinality(DOMAIN ids)
          /\ Lid \notin flags => UNCHANGED <<ids, lastId>>]_vars

\* The third call, from the function seen first, shows id 0 after the other
\* function was given id 1.
C14_Witness ==
    /\ Written("g1") /\ fr["g1"].call = 3 /\ fr["g1"].site = SiteF
    /\ DOMAIN ids = {SiteF.fn, SiteG.fn}
    /\ ids[SiteF.fn] = 0 /\ ids[SiteG.fn] = 1
    /\ fr["g1"].f.Id = <<"[", "0", "0", "]">>

(***************************************************************************)
(* SpecOrder: two goroutines log through the same two registered streams;  *)
(* the flags may be set so that callers are looked up with the mutex       *)
(* released.                                                               *)
(***************************************************************************)
InitOrder ==
    /\ New(LEVEL_DEBUG, <<"buf", "file">>)
    /\ Start

NextOrder ==
    \/ \E g \in Procs :
          /\ ncalls < MaxCalls
          /\ FprintCall(g, LEVEL_INFO, TextPlain, "nil", SiteOf(g), clock + 1)
    \/ \E g \in Procs : Core(g)
    \/ \E g \in Procs : Lookup(g)
    \/ \E g \in Procs : Registered(g)
    \/ nsets < MaxSets /\ SetFlags({Lcolor, Lid, LfunctionName})

SpecOrder == InitOrder /\ [][NextOrder]_vars

\* All the Write calls made so far
AllWrites == UNION {{wlog[w][k] : k \in 1..Len(wlog[w])} : w \in SinkIds}

(***************************************************************************)
(* C15: the records are written in the order in which their calls take the *)
(* mutex for the write step: a Write is made only by the call that holds   *)
(* the mutex, the writes of one call are not separated by a write of       *)
(* another, and every stream receives the records in the same order.       *)
(***************************************************************************)
C15_OrderedByLock ==
    /\ [](/\ \A w \in SinkIds : sinks[w] = Delivered(w)
          /\ \A x, y, z \in AllWrites :
                (x.call = z.call /\ x.seq < y.seq /\ y.seq < z.seq) => y.call = x.call
          /\ \A v, w \in SinkIds :
                \A a, b \in 1..Len(wlog[v]) : \A c, d \in 1..Len(wlog[w]) :
                    (/\ wlog[v][a].call = wlog[w][c].call
                     /\ wlog[v][b].call = wlog[w][d].call
                     /\ wlog[v][a].call # wlog[v][b].call
                     /\ a < b) => c < d)
    /\ [][\A w \in SinkIds :
             wlog'[w] # wlog[w] =>
                \E g \in Procs :
                    /\ mu = g /\ pc[g] \in Section
                    /\ \A k \in 1..Len(wlog'[w]) :
                          (k > Len(wlog[w]) \/ wlog'[w][k] # wlog[w][k]) =>
                              wlog'[w][k].g = g]_vars

\* Both goroutines have written their record to both streams, one of them
\* after a caller lookup.
C15_Witness ==
    /\ \A g \in Procs : pc[g] = "done" /\ fr[g].emitted
    /\ \E g \in Procs : fr[g].resolved
    /\ \A w \in {"buf", "file"} :
          /\ Len(wlog[w]) = 2
          /\ wlog[w][1].g # wlog[w][2].g

(***************************************************************************)
(* C16: one call on a logger with several registered streams that are not  *)
(* the console delivers the same bytes to each of them, for every          *)
(* combination of flags and every order of the streams.                    *)
(***************************************************************************)
C16_SameBytesToFiles ==
    \A g \in Procs :
        (Written(g) /\ fr[g].stream = "nil") =>
            \A i, j \in 1..Len(fr[g].ws) :
                (~IsConsole(fr[g].ws[i]) /\ ~IsConsole(fr[g].ws[j])) =>
                    \A a \in EntriesOf(fr[g].ws[i], fr[g].call) :
                        \A b \in EntriesOf(fr[g].ws[j], fr[g].call) :
                            wlog[fr[g].ws[i]][a].data = wlog[fr[g].ws[j]][b].data

\* A call that has returned without an error after writing
Succeeded(g) == pc[g] = "done" /\ fr[g].emitted /\ fr[g].err = "nil"

(***************************************************************************)
(* C17, as the specification states it: a call that succeeds returns n     *)
(* equal to the number of bytes each stream received, also when the        *)
(* stripping of LnoFileAnsi applies to some of the streams.                *)
(***************************************************************************)
C17_ReturnsBytesOfEverySink ==
    \A g \in Procs :
        Succeeded(g) =>
            \A w \in SinkIds : \A a \in EntriesOf(w, fr[g].call) :
                fr[g].n = wlog[w][a].got

(***************************************************************************)
(* C17, amended: a call that succeeds returns n equal to the number of     *)
(* bytes the last stream written received, which every stream that was     *)
(* given the same bytes received too; a stream written before the          *)
(* stripping of LnoFileAnsi applied received at least n bytes.             *)
(***************************************************************************)
C17_ReturnsBytesOfLastSink ==
    \A g \in Procs :
        (Succeeded(g) /\ fr[g].ws # <<>>) =>
            LET last == fr[g].ws[Len(fr[g].ws)]
            IN /\ \E a \in EntriesOf(last, fr[g].call) :
                     /\ fr[g].n = wlog[last][a].got
                     /\ fr[g].n = Len(wlog[last][a].data)
                     /\ \A w \in SinkIds : \A b \in EntriesOf(w, fr[g].call) :
                           /\ wlog[w][b].got >= fr[g].n
                           /\ wlog[w][b].data = wlog[last][a].data =>
                                 wlog[w][b].got = fr[g].n

\* A call has returned the number of bytes the console received, fewer than
\* the buffer written first received.
C17_Witness ==
    /\ Succeeded("g1") /\ fr["g1"].ws = <<"buf", "file", "stdout">>
    /\ \E a \in EntriesOf("stdout", fr["g1"].call) : fr["g1"].n = wlog["stdout"][a].got
    /\ \E b \in EntriesOf("buf", fr["g1"].call) : fr["g1"].n < wlog["buf"][b].got

(***************************************************************************)
(* C18: an enabled call that completes without an error makes exactly one  *)
(* Write call on each registered stream, and that call carries the whole   *)
(* record.                                                                 *)
(***************************************************************************)
C18_OneWritePerSink ==
    \A g \in Procs :
        (Succeeded(g) /\ fr[g].stream = "nil") =>
            /\ fr[g].ws = streams \/ nsets > 0
            /\ \A i \in 1..Len(fr[g].ws) :
                  /\ Cardinality(EntriesOf(fr[g].ws[i], fr[g].call)) = 1
                  /\ \A a \in EntriesOf(fr[g].ws[i], fr[g].call) :
                        /\ wlog[fr[g].ws[i]][a].got = Len(wlog[fr[g].ws[i]][a].data)
                        /\ wlog[fr[g].ws[i]][a].data \in
                              {fr[g].finalText, stripAnsiByte(fr[g].finalText)}
            /\ \A w \in SinkIds :
                  EntriesOf(w, fr[g].call) # {} => \E i \in 1..Len(fr[g].ws) : fr[g].ws[i] = w

\* A call has returned without an error after one Write on each of its two
\* streams.
C18_Witness ==
    /\ Succeeded("g1") /\ fr["g1"].ws = <<"buf", "file">>
    /\ Cardinality(EntriesOf("buf", fr["g1"].call)) = 1
    /\ Cardinality(EntriesOf("file", fr["g1"].call)) = 1
    /\ fr["g1"].finalText # <<>> /\ fr["g1"].execErr = "nil"

(***************************************************************************)
(* SpecFatal: one goroutine calls the Panic and Fatal methods of a logger  *)
(* of any threshold, recovering the panics, until the process exits; one   *)
(* of the stream lists has a stream whose Write fails.                     *)
(***************************************************************************)
FatalStreams == {<<"buf", "file">>, <<"buf", "bad", "file">>}

InitFatal ==
    /\ \E lv \in Levels : \E ss \in FatalStreams : New(lv, ss)
    /\ Start

NextFatal ==
    \/ Alive /\ ncalls < MaxSeqCalls /\ FatalCall("g1", TextPlain, SiteF, clock + 1)
    \/ Alive /\ ncalls < MaxSeqCalls /\ PanicCall("g1", TextPlain, SiteF, clock + 1)
    \/ Alive /\ Core("g1")
    \/ Alive /\ Registered("g1")
    \/ Alive /\ Exit("g1")
    \/ Alive /\ RaisePanic("g1")
    \/ Alive /\ Recover("g1")

SpecFatal == InitFatal /\ [][NextFatal]_vars

\* The call of g has returned from Fprint with the mutex released: each
\* registered stream before the first whose Write fails was written once and
\* holds the whole record at its end, and the call has no error unless a
\* Write failed.
WriteCompleted(g) ==
    LET ws == fr[g].ws
        k == FirstStop(ws)
    IN /\ fr[g].emitted /\ mu # g /\ ws = streams
       /\ fr[g].execErr = "nil" /\ fr[g].finalText # <<>>
       /\ \A i \in 1..Len(ws) : i < k =>
             /\ Cardinality(EntriesOf(ws[i], fr[g].call)) = 1
             /\ \A a \in EntriesOf(ws[i], fr[g].call) :
                   /\ wlog[ws[i]][a].got = Len(wlog[ws[i]][a].data)
                   /\ wlog[ws[i]][a].data \in
                         {fr[g].finalText, stripAnsiByte(fr[g].finalText)}
                   /\ IsSuffix(wlog[ws[i]][a].data, sinks[ws[i]])
       /\ k > Len(ws) <=> fr[g].err = "nil"

C20_PanicAfterWrite ==
    \A g \in Procs :
        /\ (fr[g].op = "Panic" /\ fr[g].call > 0) => ~Filtered(fr[g].logLevel, fr[g].lvl)
        /\ pc[g] \in {"panicked", "recovered"} =>
              /\ fr[g].op = "Panic"
              /\ WriteCompleted(g)

\* The caller has recovered the panic of a Panic call on a logger whose
\* threshold is the strictest, LEVEL_CRITICAL; both streams hold the record.
C20_Witness ==
    /\ pc["g1"] = "recovered" /\ level = LEVEL_CRITICAL
    /\ streams = <<"buf", "file">> /\ fr["g1"].err = "nil"
    /\ sinks["buf"] = fr["g1"].finalText /\ sinks["file"] # <<>>

(***************************************************************************)
(* AnsiEscape (src/color.go:59-74) and the calls of the stripper.          *)
(***************************************************************************)
OFF == 0
BOLD == 1
RED == 31

\* The arguments of AnsiEscape, of type interface{}: an eCode, a string or
\* a value of another type.
Code(n) == [t |-> "eCode", code |-> n, s |-> <<>>]
Str(s) == [t |-> "string", code |-> 0, s |-> s]
Other == [t |-> "int", code |-> 0, s |-> <<>>]

\* src/color.go:60-69: the loop over the arguments
RECURSIVE EscapeFrom(_, _)
EscapeFrom(c, i) ==
    IF i > Len(c) THEN <<>>
    ELSE (CASE c[i].t = "eCode" -> <<ESC, "[">> \o Itoa(c[i].code) \o <<"m">>
            [] c[i].t = "string" -> c[i].s
            [] OTHER -> <<>>) \o EscapeFrom(c, i + 1)

\* src/color.go:59-74, for at least one argument
AnsiEscape(c) ==
    EscapeFrom(c, 1) \o (IF c[Len(c)] # Code(OFF) THEN <<ESC, "[", "0", "m">> ELSE <<>>)

\* What a call returned: its result, or the panic it ended in
Ret(out) == [out |-> out, panic |-> FALSE]
Panicked == [out |-> <<>>, panic |-> TRUE]

\* The last result, the text given when there is none yet
Last == IF rets = <<>> THEN args.text ELSE rets[Len(rets)].out

\* A call of AnsiEscape; src/color.go:70: c[len(c)-1] of no argument is an
\* index out of range, a run-time panic.
AnsiEscapeCall ==
    /\ args.fn = "AnsiEscape"
    /\ rets = <<>>
    /\ rets' = <<IF args.c = <<>> THEN Panicked ELSE Ret(AnsiEscape(args.c))>>
    /\ UNCHANGED <<logger, sinks, pc, fr, clock, wlog, tres, ncalls, nsets, args, depth>>

\* A call of stripAnsi (src/unnamed/part_001:11-14) on the text given or on
\* the last result
StripAnsiCall(max) ==
    /\ args.fn = "stripAnsi" \/ (rets # <<>> /\ ~rets[Len(rets)].panic)
    /\ Len(rets) < max
    /\ rets' = Append(rets, Ret(stripAnsi(Last)))
    /\ UNCHANGED <<logger, sinks, pc, fr, clock, wlog, tres, ncalls, nsets, args, depth>>

\* A call of stripAnsiByte (src/unnamed/part_001:18-21), likewise
StripAnsiByteCall(max) ==
    /\ args.fn = "stripAnsi" \/ (rets # <<>> /\ ~rets[Len(rets)].panic)
    /\ Len(rets) < max
    /\ rets' = Append(rets, Ret(stripAnsiByte(Last)))
    /\ UNCHANGED <<logger, sinks, pc, fr, clock, wlog, tres, ncalls, nsets, args, depth>>

(***************************************************************************)
(* SpecAnsi: AnsiEscape is called on a list of arguments, or the stripper  *)
(* on a text, and the stripper is called again on what was returned.       *)
(***************************************************************************)
MaxParts == 3
MaxArgs == 2
MaxStrips == 2

\* The texts made of at most n of the parts given
RECURSIVE TextsOf(_, _)
TextsOf(parts, n) ==
    IF n = 0 THEN {<<>>}
    ELSE LET T == TextsOf(parts, n - 1) IN T \cup {t \o q : t \in T, q \in parts}

\* Parts of escape sequences and of plain text
StripParts == {<<ESC, "[">>, <<ESC, "[", "0", "m">>, <<"1", "m">>, <<"x">>, <<"1">>, <<";">>}
EscapeParts == {<<ESC, "[">>, <<"1", "m">>, <<"x">>}

\* At most n attribute codes
RECURSIVE Attrs(_)
Attrs(n) ==
    IF n = 0 THEN {<<>>}
    ELSE LET A == Attrs(n - 1) IN A \cup {Append(a, Code(k)) : a \in A, k \in {OFF, BOLD, RED}}

\* Argument lists: attribute codes, then a string or none, then OFF, a value
\* of another type or nothing
ArgLists ==
    {a \o m \o z : a \in Attrs(MaxArgs),
                   m \in {<<>>} \cup {<<Str(t)>> : t \in TextsOf(EscapeParts, MaxParts)},
                   z \in {<<>>, <<Code(OFF)>>, <<Other>>}}

InitAnsi ==
    /\ New(LEVEL_DEBUG, <<"buf">>)
    /\ StartLogger
    /\ rets = <<>>
    /\ depth = 0
    /\ \/ \E c \in ArgLists : args = [fn |-> "AnsiEscape", c |-> c, text |-> <<>>]
       \/ \E t \in TextsOf(StripParts, MaxParts) :
             args = [fn |-> "stripAnsi", c |-> <<>>, text |-> t]

NextAnsi ==
    \/ AnsiEscapeCall
    \/ StripAnsiCall(MaxStrips)
    \/ StripAnsiByteCall(MaxStrips)

SpecAnsi == InitAnsi /\ [][NextAnsi]_vars

(***************************************************************************)
(* C21: the stripper is idempotent: stripping what the stripper returned   *)
(* returns it unchanged, for every text, also one in which the removal of  *)
(* an escape sequence joins the bytes around it into a new one.            *)
(***************************************************************************)
C21_StripIdempotent ==
    (args.fn = "stripAnsi" /\ Len(rets) >= 2) => rets[2].out = rets[1].out

\* AnsiEscape(attrs..., text, OFF) with a text that holds no escape sequence
Colorized(c) ==
    /\ Len(c) >= 2
    /\ c[Len(c)] = Code(OFF)
    /\ c[Len(c) - 1].t = "string" /\ ~HasAnsi(c[Len(c) - 1].s)
    /\ \A i \in 1..(Len(c) - 2) : c[i].t = "eCode"

(***************************************************************************)
(* C22: stripping inverts colorizing: stripAnsi(AnsiEscape(attrs..., text, *)
(* OFF)) is text for all attribute codes and every text without an escape *)
(* sequence, and stripAnsi(s) is s for every s without an escape sequence. *)
(***************************************************************************)
C22_StripInvertsEscape ==
    /\ (args.fn = "AnsiEscape" /\ Colorized(args.c) /\ Len(rets) >= 2) =>
          /\ ~rets[1].panic
          /\ rets[2].out = args.c[Len(args.c) - 1].s
    /\ (args.fn = "stripAnsi" /\ ~HasAnsi(args.text) /\ rets # <<>>) =>
          rets[1].out = args.text

\* AnsiEscape(BOLD, RED, text, OFF) was stripped, for a text made of the
\* start of an escape sequence and the end of one.
C22_Witness ==
    /\ args.fn = "AnsiEscape"
    /\ args.c = <<Code(BOLD), Code(RED), Str(<<"1", "m", ESC, "[">>), Code(OFF)>>
    /\ Len(rets) = 2
    /\ HasAnsi(rets[1].out) /\ rets[2].out = <<"1", "m", ESC, "[">>

\* What the arguments stand for, one after the other
RECURSIVE Pieces(_)
Pieces(c) ==
    IF c = <<>> THEN <<>>
    ELSE (CASE Head(c).t = "eCode" -> <<ESC, "[">> \o Itoa(Head(c).code) \o <<"m">>
            [] Head(c).t = "string" -> Head(c).s
            [] OTHER -> <<>>) \o Pieces(Tail(c))

(***************************************************************************)
(* C23: AnsiEscape returns ESC[<code>m for each attribute code and each    *)
(* string unchanged, in the order of the arguments, followed by the reset  *)
(* ESC[0m exactly when the last argument is not OFF; for every list of     *)
(* arguments the result ends with a reset.                                 *)
(***************************************************************************)
C23_EndsWithReset ==
    (args.fn = "AnsiEscape" /\ rets # <<>>) =>
        /\ ~rets[1].panic
        /\ rets[1].out = Pieces(args.c)
                \o (IF args.c # <<>> /\ args.c[Len(args.c)] = Code(OFF) THEN <<>>
                    ELSE <<ESC, "[", "0", "m">>)
        /\ IsSuffix(<<ESC, "[", "0", "m">>, rets[1].out)

(***************************************************************************)
(* SpecFlags: the flags are set, to any combination of the flags that      *)
(* choose the fields of the record, before one goroutine logs from two     *)
(* call sites, one call at a time.                                         *)
(***************************************************************************)
FieldFlags == {Ldate, LlongFileName, LshortFileName, LfunctionName, LlineNumber,
               LnoPrefix, Lid}

InitFlags ==
    /\ New(LEVEL_DEBUG, <<"buf">>)
    /\ Start

NextFlags ==
    \/ \E fl \in SUBSET FieldFlags :
          nsets < MaxSets /\ ncalls = 0 /\ SetFlags(fl \cup {Lcolor})
    \/ \E site \in {SiteF, SiteG} :
          /\ ncalls < MaxSeqCalls
          /\ Quiet
          /\ FprintCall("g1", LEVEL_INFO, TextPlain, "nil", site, clock + 1)
    \/ Core("g1")
    \/ Lookup("g1")
    \/ Registered("g1")

SpecFlags == InitFlags /\ [][NextFlags]_vars

\* The call of g has built its record.
Gathered(g) == fr[g].call > 0 /\ pc[g] \in {"render", "dispatch", "wloop", "wret", "ret", "done"}
                  /\ ~Filtered(fr[g].logLevel, fr[g].lvl)

(***************************************************************************)
(* C24: whenever LlineNumber is set the LineNumber of the record is the    *)
(* line of the calling statement, whichever other flags are set, also when *)
(* none of the file name, function name and id flags is.                   *)
(***************************************************************************)
C24_LineOfCaller ==
    \A g \in Procs :
        (Gathered(g) /\ LlineNumber \in flags) => fr[g].f.LineNumber = fr[g].site.line

Lheirarchical == "Lheirarchical"

IndentWidth == 5
MaxDepth == 2
MaxTracedCalls == 3

\* The id field of a record written at the depth d
HierarchyId(d) == Repeat(" ", d * IndentWidth) \o IdString(d)

\* A traced scope is entered.
BeginScope ==
    /\ depth < MaxDepth
    /\ depth' = depth + 1
    /\ UNCHANGED <<logger, sinks, pc, fr, clock, wlog, tres, ncalls, nsets, args, rets>>

\* A traced scope is left.
EndScope ==
    /\ depth > 0
    /\ depth' = depth - 1
    /\ UNCHANGED <<logger, sinks, pc, fr, clock, wlog, tres, ncalls, nsets, args, rets>>

\* The record is built as at src/logger.go:473-482, with the hierarchy id
\* when the flag is set.
GatherTraced(g) ==
    /\ pc[g] = "gather"
    /\ fr' = [fr EXCEPT ![g].f =
                 [Format(g) EXCEPT !.Id = IF Lheirarchical \in flags
                                          THEN HierarchyId(depth) ELSE @]]
    /\ pc' = [pc EXCEPT ![g] = "render"]
    /\ UNCHANGED <<logger, sinks, clock, wlog, tres, ncalls, outside, nsets>>

\* What is logged at the depth d ("Level d Output")
TextAt(d) == <<"L", DigitOf(d), NL>>

(***************************************************************************)
(* SpecTraced: one goroutine sets the hierarchical flag and logs, one call *)
(* at a time, from scopes it enters and leaves between the calls.          *)
(***************************************************************************)
InitTraced ==
    /\ New(LEVEL_ALL, <<"buf">>)
    /\ Start

NextTraced ==
    \/ nsets < MaxSets /\ ncalls = 0 /\ SetFlags(LstdFlags \cup {Lheirarchical})
    \/ /\ ncalls < MaxTracedCalls
       /\ Quiet
       /\ FprintCall("g1", LEVEL_ALL, TextAt(depth), "nil", SiteF, clock + 1)
    \/ Quiet /\ BeginScope
    \/ Quiet /\ EndScope
    \/ Lock("g1")
    \/ CheckFlags("g1")
    \/ Reset("g1")
    \/ GatherTraced("g1")
    \/ Render("g1")
    \/ Dispatch("g1")
    \/ Return("g1")
    \/ Registered("g1")

SpecTraced == InitTraced /\ [][NextTraced]_vars

\* The record of a call made at the depth d: after the prefix, the
\* indentation of the depth, the depth in brackets and the text
TracedRecord(data, d) ==
    IsSuffix(prefix \o <<" ">> \o Repeat(" ", d * IndentWidth) \o IdString(d)
                 \o <<" ">> \o TextAt(d), data)

C27_OverrideOnly ==
    \A g \in Procs :
        (pc[g] = "done" /\ fr[g].emitted) =>
            IF fr[g].stream # "nil"
            THEN /\ \A w \in SinkIds : EntriesOf(w, fr[g].call) # {} <=> w = fr[g].stream
                 /\ Cardinality(EntriesOf(fr[g].stream, fr[g].call)) = 1
                 /\ \A a \in EntriesOf(fr[g].stream, fr[g].call) :
                       /\ wlog[fr[g].stream][a].data = fr[g].finalText
                       /\ wlog[fr[g].stream][a].got = fr[g].n
            ELSE /\ \A w \in SinkIds :
                       EntriesOf(w, fr[g].call) # {} <=>
                           \E i \in 1..Len(fr[g].ws) : fr[g].ws[i] = w
                 /\ fr[g].ws = streams
                 /\ \A i \in 1..Len(fr[g].ws) : \A a \in EntriesOf(fr[g].ws[i], fr[g].call) :
                       wlog[fr[g].ws[i]][a].data \in
                           {fr[g].finalText, stripAnsiByte(fr[g].finalText),
                            stripAnsiByte(stripAnsiByte(fr[g].finalText))}

\* A call given the buffer as its stream has written the record to it, and
\* the file and the console, which are registered, hold nothing.
C27_Witness ==
    /\ pc["g1"] = "done" /\ fr["g1"].emitted /\ fr["g1"].stream = "buf"
    /\ sinks["buf"] = fr["g1"].finalText /\ fr["g1"].finalText # <<>>
    /\ sinks["file"] = <<>> /\ sinks["stdout"] = <<>>
    /\ Len(streams) = 3

(***************************************************************************)
(* C28: with Lid set and goroutines logging at the same time from          *)
(* different functions, no two functions are given the same id, the id of  *)
(* a function never changes, and lastId is the number of entries of the id *)
(* table.                                                                  *)
(***************************************************************************)
C28_IdsUnique ==
    /\ [](/\ \A h1, h2 \in DOMAIN ids : ids[h1] = ids[h2] => h1 = h2
          /\ (\A g \in Procs : pc[g] \notin {"idnum", "idinc"}) =>
                lastId = Cardinality(DOMAIN ids))
    /\ [][\A h \in DOMAIN ids : h \in DOMAIN ids' /\ ids'[h] = ids[h]]_vars

\* The record starts with a date
Dated(data) == IsPrefix(dateFormat \o <<"@">>, data) /\ Len(data) >= Len(dateFormat) + 2

\* The instant of the date of a record that starts with one
Stamp(data) == CHOOSE d \in 0..9 : DigitOf(d) = data[Len(dateFormat) + 2]

(***************************************************************************)
(* C29, as stated: with Ldate set and concurrent callers, the timestamps   *)
(* of the records of a stream are non-decreasing in the order in which the *)
(* records appear in the stream.                                           *)
(***************************************************************************)
C29_TimestampsOrdered ==
    \A w \in SinkIds : \A j, k \in 1..Len(wlog[w]) :
        (j < k /\ Dated(wlog[w][j].data) /\ Dated(wlog[w][k].data)) =>
            Stamp(wlog[w][j].data) <= Stamp(wlog[w][k].data)

(***************************************************************************)
(* C29, amended: the timestamp of a record is the time read at the entry   *)
(* of its call, before the mutex is taken; the timestamps of the records   *)
(* of one goroutine are non-decreasing in the order of the stream, no      *)
(* record has a timestamp later than the clock, and a call never enters    *)
(* with a time before it.                                                  *)
(***************************************************************************)
C29_TimestampsOfEntry ==
    /\ [](/\ \A w \in SinkIds : \A j, k \in 1..Len(wlog[w]) :
                (/\ j < k /\ wlog[w][j].g = wlog[w][k].g
                 /\ Dated(wlog[w][j].data) /\ Dated(wlog[w][k].data)) =>
                    Stamp(wlog[w][j].data) <= Stamp(wlog[w][k].data)
          /\ \A w \in SinkIds : \A k \in 1..Len(wlog[w]) :
                Dated(wlog[w][k].data) =>
                    /\ Stamp(wlog[w][k].data) <= clock
                    /\ \A g \in Procs :
                          fr[g].call = wlog[w][k].call => Stamp(wlog[w][k].data) = fr[g].now)
    /\ [][\A g \in Procs : (pc[g] # "lock" /\ pc'[g] = "lock") => fr'[g].now >= clock]_vars

\* The buffer holds the record of the call that entered second before the
\* record of the call that entered first.
C29_Witness ==
    /\ Len(wlog["buf"]) = 2
    /\ Dated(wlog["buf"][1].data) /\ Dated(wlog["buf"][2].data)
    /\ Stamp(wlog["buf"][1].data) = 2 /\ Stamp(wlog["buf"][2].data) = 1
    /\ wlog["buf"][1].g # wlog["buf"][2].g

(***************************************************************************)
(* SpecLive: one goroutine calls Panic and recovers, the other logs, while *)
(* the flags may be set so that the caller is looked up with the mutex     *)
(* released.  The scheduler lets every goroutine that can take a step of   *)
(* Fprint take it, and the writers return.                                 *)
(***************************************************************************)
InitLive ==
    /\ New(LEVEL_DEBUG, <<"buf", "file">>)
    /\ Start

NextLive ==
    \/ ncalls < MaxCalls /\ PanicCall("g1", TextPlain, SiteF, clock + 1)
    \/ ncalls < MaxCalls /\ FprintCall("g2", LEVEL_INFO, TextPlain, "nil", SiteG, clock + 1)
    \/ \E g \in Procs : Core(g)
    \/ \E g \in Procs : Lookup(g)
    \/ \E g \in Procs : Registered(g)
    \/ RaisePanic("g1")
    \/ Recover("g1")
    \/ nsets < MaxSets /\ SetFlags({Lcolor, Lid, LfunctionName})

\* Whether g stands before a step that computes a text: the execution of
\* the template, or the Write of the next stream.
Texting(g) ==
    \/ pc[g] = "render"
    \/ pc[g] = "wloop" /\ fr[g].i <= Len(fr[g].ws)

\* The scheduler does not leave a goroutine that can go on waiting for
\* ever: sync.Mutex.Lock returns once the mutex is free for good, every
\* other step of Fprint and every Write of the streams returns.  The last
\* conjunct is the weak fairness of Render(g) \/ WriteCall(g), written out
\* with Texting(g) for the enabledness of that step.
Scheduled(g) ==
    /\ WF_vars(Lock(g) \/ CheckFlags(g) \/ Reset(g) \/ Gather(g) \/ Dispatch(g)
                   \/ Return(g))
    /\ WF_vars(Lookup(g))
    /\ WF_vars(WriteRet(g) \/ WriteEnd(g))
    /\ \/ []<>(~Texting(g))
       \/ []<><<Render(g) \/ WriteCall(g)>>_vars

SpecLive ==
    /\ InitLive
    /\ [][NextLive]_vars
    /\ \A g \in Procs : Scheduled(g)

\* Where a goroutine holds the mutex, and where it does not
Holding == {"flags", "reset", "gather", "render", "dispatch", "wloop", "wret",
            "ocall", "oret", "ret"}

(***************************************************************************)
(* C30: every logging call returns once the writes of its streams return,  *)
(* and leaves the mutex free: on every path, the one that unlocks and      *)
(* locks again for the caller lookup included, the mutex is unlocked only  *)
(* by the goroutine that holds it and as often as it was locked, and no    *)
(* call waits for ever for a mutex that an earlier call, one that ended in *)
(* a panic included, left held.                                            *)
(***************************************************************************)
C30_ReturnsAndFrees ==
    /\ [](\A g \in Procs : pc[g] \in Holding <=> mu = g)
    /\ [][mu # mu' => \E g \in Procs :
             \/ mu = "free" /\ mu' = g /\ pc[g] \in {"lock", "relock"}
             \/ mu = g /\ mu' = "free" /\ pc[g] \in {"flags", "ret"}]_vars
    /\ \A g \in Procs : (pc[g] \in {"lock", "relock"}) ~> (pc[g] = "done" /\ mu # g)
    /\ []<>(mu = "free")

\* The call of g2 that entered after the Panic call of g1 has looked up its
\* caller and returned, and g1 has recovered its panic.
C30_Witness ==
    /\ pc["g1"] = "recovered" /\ fr["g1"].emitted
    /\ pc["g2"] = "done" /\ fr["g2"].emitted /\ fr["g2"].resolved
    /\ fr["g2"].call > fr["g1"].call
    /\ mu = "free"

====
